---- MODULE Spec2Model ----
(***************************************************************************)
(* A model of the InferenceBot chat bot: the model registry                *)
(* (src/src/llmModels.js), the rate limiter and the event handlers of the  *)
(* router (src/src/bot.js).                                                *)
(*                                                                         *)
(* JavaScript runs a handler from one await to the next without            *)
(* preemption.  Every action below is one such synchronous segment: it     *)
(* starts when an event arrives or an awaited call settles, and ends at    *)
(* the next await (or at the handler's return).                            *)
(*                                                                         *)
(* null / undefined values are modelled as options: Null is the empty      *)
(* tuple and Some(x) the one-element tuple <<x>>.                          *)
(***************************************************************************)
EXTENDS Integers, Sequences, FiniteSets, TLC

VARIABLES
    cachedModels,   \* llmModels.js: the in-memory cache (option of a list)
    cacheFile,      \* llmModels.js: the content of CACHE_FILE on disk
    calls,          \* getAvailableModels calls in flight, by call slot
    choiceCall,     \* a call of getModelChoices: its argument and its result
    now,            \* bot.js: the clock, Date.now(), in milliseconds
    ticks,          \* how many times the clock has advanced
    userLastRequest,            \* bot.js: userId -> timestamp (option)
    modelRestrictionEnabled,    \* bot.js: the model-restriction flag
    handlers,       \* bot.js: the event handlers in flight, by slot
    lastAccepted,   \* history: per user, the time of the last request that
                    \* checkRateLimit allowed (option)
    registrar       \* register.js: a call of register(): its position, the
                    \* publishes it made, the exit code of the process

regVars == <<cachedModels, cacheFile, calls>>

botVars == <<now, ticks, userLastRequest, modelRestrictionEnabled, handlers, lastAccepted>>

\* What the model registry leaves alone.
notRegVars == <<choiceCall, botVars, registrar>>

vars == <<cachedModels, cacheFile, calls, choiceCall, now, ticks, userLastRequest,
          modelRestrictionEnabled, handlers, lastAccepted, registrar>>

Null == << >>

Some(x) == <<x>>

\* No call of register(): main is whether the file runs as the main module,
\* force the argument forceRefreshModels, log the publishes made, ret the
\* list register() resolved with, exit the exit code of the process.
IdleRegistrar ==
    [pc |-> "idle", main |-> FALSE, force |-> FALSE, log |-> << >>, ret |-> Null, exit |-> Null]

(***************************************************************************)
(* Bounds of the model.                                                    *)
(***************************************************************************)
\* Length of the longest model list an API response or a cache file holds.
MaxModels == 27

\* Number of rotations of the identifier pool used to build argument lists.
MaxShift == 3

\* Number of getAvailableModels calls that may be in flight together.
NumCalls == 2

(***************************************************************************)
(* Model registry, src/src/llmModels.js                                    *)
(***************************************************************************)
\* Model identifiers the environment can produce.
ModelPool ==
    <<"m01", "m02", "m03", "m04", "m05", "m06", "m07", "m08", "m09", "m10",
      "m11", "m12", "m13", "m14", "m15", "m16", "m17", "m18", "m19", "m20",
      "m21", "m22", "m23", "m24", "m25", "m26", "m27", "m28", "m29", "m30">>

PoolPrefix(n) == [i \in 1..n |-> ModelPool[i]]

\* The hardcoded fallback list of getAvailableModels.
defaults ==
    <<"asi1-mini", "google/gemma-3-27b-it", "openai/gpt-oss-20b",
      "meta-llama/llama-3.3-70b-instruct", "mistralai/mistral-nemo",
      "qwen/qwen3-32b", "z-ai/glm-4.5-air">>

\* Discord allows at most 25 choices.
maxChoices == 25

\* Lists of model ids a valid cache file or an API response may hold.
ModelLists == { << >>, <<"a", "b">>, PoolPrefix(MaxModels) }

\* What CACHE_FILE may hold: no file, text that JSON.parse rejects, JSON
\* without a `models` array, JSON with a `models` array.
FileAbsent == [kind |-> "absent", models |-> << >>]

FileMalformed == [kind |-> "malformed", models |-> << >>]

FileNoModels == [kind |-> "nomodels", models |-> << >>]

FileJson(models) == [kind |-> "json", models |-> models]

CacheFiles ==
    {FileAbsent, FileMalformed, FileNoModels} \cup {FileJson(l) : l \in ModelLists}

\* An entry of the API response: an object with an `id`, an object with a
\* `name`, an object with neither (kept as it is), a bare string; "" stands
\* for an absent field, and for the empty string, both falsy.
Entry(id, name, raw) == [id |-> id, name |-> name, raw |-> raw]

IdEntries(l) == [i \in 1..Len(l) |-> Entry(l[i], "", "{}")]

\* HTTP outcomes of GET {apiBase}/models: the request fails (network error,
\* non-2xx status), the body is no array (models.map throws), or the body
\* is an array of entries.
RespFailed == [kind |-> "failed", entries |-> << >>]

RespNotArray == [kind |-> "notarray", entries |-> << >>]

RespArray(entries) == [kind |-> "array", entries |-> entries]

Responses ==
    {RespFailed, RespNotArray}
    \cup {RespArray(IdEntries(l)) : l \in ModelLists}
    \cup {RespArray(<<Entry("", "n1", "{}"), Entry("", "", ""), Entry("", "", "s1"),
                      Entry("i1", "n2", "{}")>>),
          RespArray(<<Entry("", "", "")>>)}

\* m.id || m.name || m
EntryId(m) == IF m.id # "" THEN m.id ELSE IF m.name # "" THEN m.name ELSE m.raw

RECURSIVE FilterTruthy(_)
\* Array.prototype.filter(Boolean) on a list of strings.
FilterTruthy(l) ==
    IF l = << >> THEN << >>
    ELSE IF Head(l) # "" THEN <<Head(l)>> \o FilterTruthy(Tail(l))
    ELSE FilterTruthy(Tail(l))

\* fetchModelsFromAPI: whether it throws, and the list it returns.
fetchModelsFromAPI(resp) ==
    IF resp.kind # "array"
    THEN [threw |-> TRUE, models |-> << >>]
    ELSE [threw |-> FALSE,
          models |-> FilterTruthy([i \in 1..Len(resp.entries) |-> EntryId(resp.entries[i])])]

\* Mutant of loadModelsFromCache: an empty `models` array is accepted.
loadModelsFromCache_AcceptsEmpty(file) ==
    IF file.kind = "json" THEN Some(file.models) ELSE Null

\* loadModelsFromCache: the cached list, or null.
loadModelsFromCache(file) ==
    IF file.kind = "json" /\ Len(file.models) > 0 THEN Some(file.models) ELSE Null

\* saveModelsToCache: the file afterwards; a failed write is swallowed and
\* leaves the file as it was.
saveModelsToCache(file, models, writeOk) ==
    IF writeOk THEN FileJson(models) ELSE file

\* Mutant of getModelChoices: the list is not truncated.
getModelChoices_NoLimit(models) ==
    [i \in 1..Len(models) |-> [name |-> models[i], value |-> models[i]]]

\* getModelChoices: the first maxChoices models as {name, value} pairs.
getModelChoices(models) ==
    LET n == IF Len(models) < maxChoices THEN Len(models) ELSE maxChoices
    IN  [i \in 1..n |-> [name |-> models[i], value |-> models[i]]]

CallIds == 1..NumCalls

\* A call slot.  resp is the HTTP outcome the call got, io the disk and
\* network operations it made, in order, and ret the list it returned.
IdleCall == [pc |-> "idle", force |-> FALSE, resp |-> Null, io |-> << >>, ret |-> Null]

\* Mutant of SyncPart: the cache file is tried before the in-memory cache.
SyncPart_DiskFirst(mem, file, force) ==
    IF ~force /\ loadModelsFromCache(file) # Null
    THEN [returns |-> TRUE, ret |-> loadModelsFromCache(file),
          mem |-> loadModelsFromCache(file), io |-> <<"read">>]
    ELSE IF mem # Null /\ ~force
    THEN [returns |-> TRUE, ret |-> mem, mem |-> mem, io |-> <<"read">>]
    ELSE [returns |-> FALSE, ret |-> Null, mem |-> mem,
          io |-> (IF force THEN << >> ELSE <<"read">>) \o <<"fetch">>]

\* Mutant of SyncPart: forceRefresh does not bypass the in-memory cache.
SyncPart_IgnoresForce(mem, file, force) ==
    IF mem # Null
    THEN [returns |-> TRUE, ret |-> mem, mem |-> mem, io |-> << >>]
    ELSE IF ~force /\ loadModelsFromCache(file) # Null
    THEN [returns |-> TRUE, ret |-> loadModelsFromCache(file),
          mem |-> loadModelsFromCache(file), io |-> <<"read">>]
    ELSE [returns |-> FALSE, ret |-> Null, mem |-> mem,
          io |-> (IF force THEN << >> ELSE <<"read">>) \o <<"fetch">>]

\* getAvailableModels up to `await fetchModelsFromAPI(...)`: whether it
\* returns before the fetch, the list it then returns, the in-memory cache
\* afterwards and the operations made.
SyncPart(mem, file, force) ==
    IF mem # Null /\ ~force
    THEN [returns |-> TRUE, ret |-> mem, mem |-> mem, io |-> << >>]
    ELSE IF ~force /\ loadModelsFromCache(file) # Null
    THEN [returns |-> TRUE, ret |-> loadModelsFromCache(file),
          mem |-> loadModelsFromCache(file), io |-> <<"read">>]
    ELSE [returns |-> FALSE, ret |-> Null, mem |-> mem,
          io |-> (IF force THEN << >> ELSE <<"read">>) \o <<"fetch">>]

\* getAvailableModels after the fetch settled: the list returned and
\* whether saveModelsToCache is called with it.
AfterFetch(resp) ==
    LET r == fetchModelsFromAPI(resp)
    IN  IF ~r.threw /\ Len(r.models) > 0
        THEN [ret |-> r.models, save |-> TRUE]
        ELSE [ret |-> defaults, save |-> FALSE]

\* getAvailableModels(apiBase, apiKey, forceRefresh) is called.
GetAvailableModels(c, force) ==
    /\ calls[c].pc = "idle"
    /\ LET s == SyncPart(cachedModels, cacheFile, force)
       IN  /\ cachedModels' = s.mem
           /\ calls' = [calls EXCEPT ![c] =
                 [pc |-> IF s.returns THEN "returned" ELSE "fetching",
                  force |-> force, resp |-> Null, io |-> s.io, ret |-> s.ret]]
    /\ UNCHANGED <<cacheFile, notRegVars>>

\* The fetch of a call settles with HTTP outcome resp; writeOk is whether a
\* write of the cache file succeeds.
FetchSettles(c, resp, writeOk) ==
    /\ calls[c].pc = "fetching"
    /\ LET a == AfterFetch(resp)
       IN  /\ cachedModels' = Some(a.ret)
           /\ cacheFile' = IF a.save THEN saveModelsToCache(cacheFile, a.ret, writeOk)
                           ELSE cacheFile
           /\ calls' = [calls EXCEPT ![c] =
                 [@ EXCEPT !.pc = "returned", !.resp = Some(resp),
                           !.io = @ \o (IF ~a.save THEN << >>
                                         ELSE IF writeOk THEN <<"write">>
                                         ELSE <<"writefailed">>),
                           !.ret = Some(a.ret)]]
    /\ UNCHANGED notRegVars

\* The caller has taken the returned list: the call is over.
CallOver(c) ==
    /\ calls[c].pc = "returned"
    /\ calls' = [calls EXCEPT ![c] = IdleCall]
    /\ UNCHANGED <<cachedModels, cacheFile, notRegVars>>

\* clearCache()
ClearCache ==
    /\ cachedModels # Null
    /\ cachedModels' = Null
    /\ UNCHANGED <<cacheFile, calls, notRegVars>>

RegInit ==
    /\ cachedModels = Null
    /\ cacheFile \in CacheFiles
    /\ calls = [c \in CallIds |-> IdleCall]

RegNext ==
    \/ \E c \in CallIds, force \in BOOLEAN : GetAvailableModels(c, force)
    \/ \E c \in CallIds, resp \in Responses, writeOk \in BOOLEAN : FetchSettles(c, resp, writeOk)
    \/ \E c \in CallIds : CallOver(c)
    \/ ClearCache

(***************************************************************************)
(* getModelChoices applied to argument lists of every length up to         *)
(* MaxModels.                                                              *)
(***************************************************************************)
\* The list of n identifiers of the pool that starts after the k-th.
PoolList(n, k) == [i \in 1..n |-> ModelPool[((i - 1 + k) % Len(ModelPool)) + 1]]

ChoiceArgs == {PoolList(n, k) : n \in 0..MaxModels, k \in 0..MaxShift} \cup ModelLists

\* getModelChoices(models) is called and returns.
GetModelChoices ==
    /\ choiceCall.out = Null
    /\ choiceCall' = [choiceCall EXCEPT !.out = Some(getModelChoices(choiceCall.in))]
    /\ UNCHANGED <<regVars, botVars, registrar>>

ChoicesInit == choiceCall \in {[in |-> l, out |-> Null] : l \in ChoiceArgs}

ChoicesNext == GetModelChoices

(***************************************************************************)
(* The router, src/src/bot.js: environment                                 *)
(***************************************************************************)
\* Number of handlers that may be in flight together, where handlers run
\* concurrently.
NumSlots == 2

\* Number of times the clock advances.
MaxTicks == 2

\* Date.now() when the process starts, in milliseconds.
StartTime == 1

RATE_LIMIT_SECONDS == 20

\* One short and one long advance of the clock, in milliseconds: the long
\* one ends a millisecond before the cooldown does.
TickSteps == {1, RATE_LIMIT_SECONDS * 1000 - 1}

Users == {"alice", "bob"}

\* The users whose member permissions include Administrator.
Admins == {"alice"}

\* The designated free model, and another one.
FreeModel == "asi1-mini"

Models == {FreeModel, "gpt-x"}

\* An error thrown by a platform call: err.code, err.rawError.code and
\* err.status, 0 where absent.
Err(code, raw, status) == [code |-> code, raw |-> raw, status |-> status]

NoErr == Err(0, 0, 0)

\* Errors a channel post may fail with: missing access, missing
\* permissions, a bare HTTP 403, missing permissions reported in rawError
\* only, and an unknown channel (code 10003) answered with HTTP 403.
SendErrors ==
    {Err(50001, 50001, 403), Err(50013, 50013, 403), Err(0, 0, 403),
     Err(10003, 10003, 403)}

\* A message of the channel history.
Msg(id, bot, content) == [id |-> id, bot |-> bot, content |-> content, createdTimestamp |-> id * 10]

\* Number of messages of the longest channel history.
MaxHistory == 14

\* A history of n messages, most recent first, where the messages of bots
\* were written by bots and those of blanks hold blanks only.
History(n, bots, blanks) ==
    [i \in 1..n |-> Msg(n + 1 - i, (n + 1 - i) \in bots,
                        IF (n + 1 - i) \in blanks THEN " " ELSE "text")]

\* Channel histories, most recent message first: an empty channel, a
\* channel where only a bot wrote, a channel with user messages, a bot
\* message and a message of blanks, and a channel with more user messages
\* than the least `limit` of /summarize.
Channels ==
    { << >>,
      <<Msg(1, TRUE, "text")>>,
      <<Msg(4, FALSE, "text"), Msg(3, TRUE, "text"), Msg(2, FALSE, " "), Msg(1, FALSE, "text")>>,
      History(MaxHistory, {5, 11}, {8}) }

\* The `limit` option of /summarize: absent, or a number.
LimitOptions == {Null, Some(5)}

\* An entry of a handler's log: a check the handler made or a call it
\* awaited, what it sent, how the call settled ("pending" until it does,
\* "settled" when the handler ignores the outcome), the error it threw
\* and, for a rate-limit rejection, the seconds to wait.
LogEntry(op, content, res, err, n) ==
    [op |-> op, content |-> content, res |-> res, err |-> err, n |-> n]

Check(op, res) == LogEntry(op, "", res, NoErr, 0)

Call(op, content) == LogEntry(op, content, "pending", NoErr, 0)

\* A handler slot.
IdleHandler ==
    [kind |-> "none", pc |-> "idle", user |-> "", model |-> "",
     limit |-> 0, includeBots |-> FALSE, chan |-> << >>, collected |-> << >>,
     lastId |-> Null, plain |-> << >>, thinkingMsg |-> FALSE, log |-> << >>]

\* The slots for handlers in flight.
Slots == DOMAIN handlers

\* The log with its last entry, the awaited call, settled.
Settle(log, res, err) ==
    [log EXCEPT ![Len(log)] = [@ EXCEPT !.res = res, !.err = err]]

(***************************************************************************)
(* The rate limiter, src/src/bot.js lines 8-32                             *)
(***************************************************************************)
\* Math.ceil(ms / 1000) for ms >= 0.
CeilSeconds(ms) == (ms + 999) \div 1000

\* Mutant of checkRateLimit: a rejected request restarts the cooldown.
checkRateLimit_RejectUpdates(map, userId, t) ==
    LET lastRequest == map[userId]
        elapsed == t - lastRequest[1]
    IN  IF lastRequest # Null /\ lastRequest[1] # 0 /\ elapsed < RATE_LIMIT_SECONDS * 1000
        THEN [error |-> Some(CeilSeconds(RATE_LIMIT_SECONDS * 1000 - elapsed)),
              map |-> [map EXCEPT ![userId] = Some(t)]]
        ELSE [error |-> Null, map |-> [map EXCEPT ![userId] = Some(t)]]

\* Mutant of checkRateLimit: the timestamp of an allowed request is not
\* recorded.
checkRateLimit_NoRecord(map, userId, t) ==
    LET lastRequest == map[userId]
        elapsed == t - lastRequest[1]
    IN  IF lastRequest # Null /\ lastRequest[1] # 0 /\ elapsed < RATE_LIMIT_SECONDS * 1000
        THEN [error |-> Some(CeilSeconds(RATE_LIMIT_SECONDS * 1000 - elapsed)), map |-> map]
        ELSE [error |-> Null, map |-> map]

\* Mutant of checkRateLimit: a request exactly at the end of the cooldown is
\* still rejected.
checkRateLimit_OffByOne(map, userId, t) ==
    LET lastRequest == map[userId]
        elapsed == t - lastRequest[1]
    IN  IF lastRequest # Null /\ lastRequest[1] # 0 /\ elapsed <= RATE_LIMIT_SECONDS * 1000
        THEN [error |-> Some(CeilSeconds(RATE_LIMIT_SECONDS * 1000 - elapsed)), map |-> map]
        ELSE [error |-> Null, map |-> [map EXCEPT ![userId] = Some(t)]]

\* checkRateLimit(userId) at time t = Date.now(): the seconds to wait when
\* the request is rejected (null when it is allowed), and the map
\* afterwards.  (now - lastRequest) / 1000 < RATE_LIMIT_SECONDS is compared
\* in milliseconds; `if (lastRequest)` is false for undefined and for 0.
checkRateLimit(map, userId, t) ==
    LET lastRequest == map[userId]
        elapsed == t - lastRequest[1]
    IN  IF lastRequest # Null /\ lastRequest[1] # 0 /\ elapsed < RATE_LIMIT_SECONDS * 1000
        THEN [error |-> Some(CeilSeconds(RATE_LIMIT_SECONDS * 1000 - elapsed)), map |-> map]
        ELSE [error |-> Null, map |-> [map EXCEPT ![userId] = Some(t)]]

\* The log entry of a rate-limit check.
RateLimitEntry(r) ==
    IF r.error = Null THEN Check("checkRateLimit", "pass")
    ELSE LogEntry("checkRateLimit", "", "reject", NoErr, r.error[1])

\* The history of allowed requests after a handler's checks: accepted is
\* whether checkRateLimit was called and returned null.
Accepted(accepted, userId) ==
    IF accepted THEN [lastAccepted EXCEPT ![userId] = Some(now)] ELSE lastAccepted

\* Time passes.
Tick(d) ==
    /\ ticks < MaxTicks
    /\ now' = now + d
    /\ ticks' = ticks + 1
    /\ UNCHANGED <<userLastRequest, modelRestrictionEnabled, handlers, lastAccepted, regVars, choiceCall, registrar>>

(***************************************************************************)
(* InteractionCreate, src/src/bot.js lines 63-278: from the event to the   *)
(* first await                                                             *)
(***************************************************************************)
\* interaction.member?.permissions?.has('Administrator')
IsAdmin(user) == user \in Admins

\* Mutant of Restricted: administrators are restricted too.
Restricted_AdminsToo(flag, user, model) == flag /\ model # FreeModel

\* Mutant of Restricted: the flag is not consulted.
Restricted_Always(flag, user, model) == ~IsAdmin(user) /\ model # FreeModel

\* modelRestrictionEnabled && !isAdmin && model !== 'asi1-mini'
Restricted(flag, user, model) == flag /\ ~IsAdmin(user) /\ model # FreeModel

\* A handler that starts in slot p.
Started(kind, user, model, pc, log) ==
    [IdleHandler EXCEPT !.kind = kind, !.user = user, !.model = model, !.pc = pc, !.log = log]

\* A command arrives outside a server (lines 67-75).
DirectMessageCommand(p, cmd, user) ==
    /\ handlers[p].pc = "idle"
    /\ handlers' = [handlers EXCEPT ![p] =
          Started(cmd, user, "", "awaitReply",
                  <<Check("guild", "reject"), Call("reply", "guildOnly")>>)]
    /\ UNCHANGED <<now, ticks, userLastRequest, modelRestrictionEnabled, lastAccepted, regVars, choiceCall, registrar>>

\* Mutant of AskChecks: the restriction is checked before the rate limit.
AskChecks_RestrictionFirst(user, model) ==
    LET r == checkRateLimit(userLastRequest, user, now)
    IN  IF Restricted(modelRestrictionEnabled, user, model)
        THEN [pc |-> "awaitReply", map |-> userLastRequest, accepted |-> FALSE,
              log |-> <<Check("guild", "pass"), Check("restriction", "reject"),
                        Call("reply", "restricted")>>]
        ELSE IF r.error # Null
        THEN [pc |-> "awaitReply", map |-> r.map, accepted |-> r.error = Null,
              log |-> <<Check("guild", "pass"), Check("restriction", "pass"),
                        RateLimitEntry(r), Call("reply", "rateLimit")>>]
        ELSE [pc |-> "awaitDefer", map |-> r.map, accepted |-> r.error = Null,
              log |-> <<Check("guild", "pass"), Check("restriction", "pass"),
                        RateLimitEntry(r), Call("deferReply", "")>>]

\* Mutant of AskChecks: the model is called before the acknowledgment.
AskChecks_NoDefer(user, model) ==
    LET r == checkRateLimit(userLastRequest, user, now)
    IN  IF r.error # Null
        THEN [pc |-> "awaitReply", map |-> r.map, accepted |-> r.error = Null,
              log |-> <<Check("guild", "pass"), RateLimitEntry(r), Call("reply", "rateLimit")>>]
        ELSE IF Restricted(modelRestrictionEnabled, user, model)
        THEN [pc |-> "awaitReply", map |-> r.map, accepted |-> r.error = Null,
              log |-> <<Check("guild", "pass"), RateLimitEntry(r),
                        Check("restriction", "reject"), Call("reply", "restricted")>>]
        ELSE [pc |-> "awaitLLM", map |-> r.map, accepted |-> r.error = Null,
              log |-> <<Check("guild", "pass"), RateLimitEntry(r),
                        Check("restriction", "pass"), Call("llm", "")>>]

\* /askllm in a server, lines 78-107: the rate-limit check, the restriction
\* check and the call of deferReply.
AskChecks(user, model) ==
    LET r == checkRateLimit(userLastRequest, user, now)
    IN  IF r.error # Null
        THEN [pc |-> "awaitReply", map |-> r.map, accepted |-> r.error = Null,
              log |-> <<Check("guild", "pass"), RateLimitEntry(r), Call("reply", "rateLimit")>>]
        ELSE IF Restricted(modelRestrictionEnabled, user, model)
        THEN [pc |-> "awaitReply", map |-> r.map, accepted |-> r.error = Null,
              log |-> <<Check("guild", "pass"), RateLimitEntry(r),
                        Check("restriction", "reject"), Call("reply", "restricted")>>]
        ELSE [pc |-> "awaitDefer", map |-> r.map, accepted |-> r.error = Null,
              log |-> <<Check("guild", "pass"), RateLimitEntry(r),
                        Check("restriction", "pass"), Call("deferReply", "")>>]

\* /askllm arrives in a server.
AskCommand(p, user, model) ==
    /\ handlers[p].pc = "idle"
    /\ LET a == AskChecks(user, model)
       IN  /\ handlers' = [handlers EXCEPT ![p] = Started("askllm", user, model, a.pc, a.log)]
           /\ userLastRequest' = a.map
           /\ lastAccepted' = Accepted(a.accepted, user)
    /\ UNCHANGED <<now, ticks, modelRestrictionEnabled, regVars, choiceCall, registrar>>

\* Math.max(10, Math.min(1000, getInteger('limit') || 200))
EffectiveLimit(limitOpt) ==
    LET requestedLimit == IF limitOpt = Null \/ limitOpt[1] = 0 THEN 200 ELSE limitOpt[1]
        capped == IF requestedLimit < 1000 THEN requestedLimit ELSE 1000
    IN  IF capped > 10 THEN capped ELSE 10

\* Mutant of SummarizeChecks: the rate limit is checked before the
\* administrator check.
SummarizeChecks_LimitFirst(user) ==
    LET r == checkRateLimit(userLastRequest, user, now)
    IN  IF r.error # Null
        THEN [pc |-> "awaitReply", map |-> r.map, accepted |-> r.error = Null,
              log |-> <<Check("guild", "pass"), RateLimitEntry(r), Call("reply", "rateLimit")>>]
        ELSE IF ~IsAdmin(user)
        THEN [pc |-> "awaitReply", map |-> r.map, accepted |-> r.error = Null,
              log |-> <<Check("guild", "pass"), Check("admin", "reject"),
                        Call("reply", "adminOnly")>>]
        ELSE [pc |-> "awaitDefer", map |-> r.map, accepted |-> r.error = Null,
              log |-> <<Check("guild", "pass"), Check("admin", "pass"), RateLimitEntry(r),
                        Call("deferReply", "")>>]

\* Mutant of SummarizeChecks: no administrator check.
SummarizeChecks_NoAdminCheck(user) ==
    LET r == checkRateLimit(userLastRequest, user, now)
    IN  IF r.error # Null
        THEN [pc |-> "awaitReply", map |-> r.map, accepted |-> r.error = Null,
              log |-> <<Check("guild", "pass"), Check("admin", "pass"), RateLimitEntry(r),
                        Call("reply", "rateLimit")>>]
        ELSE [pc |-> "awaitDefer", map |-> r.map, accepted |-> r.error = Null,
              log |-> <<Check("guild", "pass"), Check("admin", "pass"), RateLimitEntry(r),
                        Call("deferReply", "")>>]

\* /summarize in a server, lines 153-184: the administrator check, the
\* rate-limit check and the call of deferReply.
SummarizeChecks(user) ==
    LET r == checkRateLimit(userLastRequest, user, now)
    IN  IF ~IsAdmin(user)
        THEN [pc |-> "awaitReply", map |-> userLastRequest, accepted |-> FALSE,
              log |-> <<Check("guild", "pass"), Check("admin", "reject"),
                        Call("reply", "adminOnly")>>]
        ELSE IF r.error # Null
        THEN [pc |-> "awaitReply", map |-> r.map, accepted |-> r.error = Null,
              log |-> <<Check("guild", "pass"), Check("admin", "pass"), RateLimitEntry(r),
                        Call("reply", "rateLimit")>>]
        ELSE [pc |-> "awaitDefer", map |-> r.map, accepted |-> r.error = Null,
              log |-> <<Check("guild", "pass"), Check("admin", "pass"), RateLimitEntry(r),
                        Call("deferReply", "")>>]

\* /summarize arrives in a server, in a channel with history chan.
SummarizeCommand(p, user, model, limitOpt, includeBots, chan) ==
    /\ handlers[p].pc = "idle"
    /\ LET a == SummarizeChecks(user)
           live == a.pc = "awaitDefer"
       IN  /\ handlers' = [handlers EXCEPT ![p] =
                 [Started("summarize", user, model, a.pc, a.log) EXCEPT
                    !.limit = IF live THEN EffectiveLimit(limitOpt) ELSE 0,
                    !.includeBots = live /\ includeBots,
                    !.chan = IF live THEN chan ELSE << >>]]
           /\ userLastRequest' = a.map
           /\ lastAccepted' = Accepted(a.accepted, user)
    /\ UNCHANGED <<now, ticks, modelRestrictionEnabled, regVars, choiceCall, registrar>>

\* Mutant of ToggleCommand: every user toggles the flag.
ToggleCommand_AnyUser(p, user) ==
    /\ handlers[p].pc = "idle"
    /\ modelRestrictionEnabled' = ~modelRestrictionEnabled
    /\ handlers' = [handlers EXCEPT ![p] =
          Started("toggle_model_restriction", user, "", "awaitReply",
                  <<Check("guild", "pass"), Check("admin", "pass"),
                    Call("reply", IF modelRestrictionEnabled' THEN "enabled" ELSE "disabled")>>)]
    /\ UNCHANGED <<now, ticks, userLastRequest, lastAccepted, regVars, choiceCall, registrar>>

\* /toggle_model_restriction arrives in a server, lines 252-277.
ToggleCommand(p, user) ==
    /\ handlers[p].pc = "idle"
    /\ IF ~IsAdmin(user)
       THEN /\ handlers' = [handlers EXCEPT ![p] =
                  Started("toggle_model_restriction", user, "", "awaitReply",
                          <<Check("guild", "pass"), Check("admin", "reject"),
                            Call("reply", "adminOnly")>>)]
            /\ UNCHANGED modelRestrictionEnabled
       ELSE /\ modelRestrictionEnabled' = ~modelRestrictionEnabled
            /\ handlers' = [handlers EXCEPT ![p] =
                  Started("toggle_model_restriction", user, "", "awaitReply",
                          <<Check("guild", "pass"), Check("admin", "pass"),
                            Call("reply", IF modelRestrictionEnabled' THEN "enabled" ELSE "disabled")>>)]
    /\ UNCHANGED <<now, ticks, userLastRequest, lastAccepted, regVars, choiceCall, registrar>>

\* Another chat-input command (/refresh_models) arrives in a server: no
\* branch of the handler takes it, and the handler returns.
OtherCommand(p, user) ==
    /\ handlers[p].pc = "idle"
    /\ handlers' = [handlers EXCEPT ![p] =
          Started("refresh_models", user, "", "done", <<Check("guild", "pass")>>)]
    /\ UNCHANGED <<now, ticks, userLastRequest, modelRestrictionEnabled, lastAccepted, regVars, choiceCall, registrar>>

(***************************************************************************)
(* MessageCreate, src/src/bot.js lines 281-349: from the event to the      *)
(* first await                                                             *)
(***************************************************************************)
\* Why a message is ignored: its author is a bot, it is a private message,
\* the client has no user yet, or it does not mention the bot.
IgnoreReasons == {"bot", "dm", "notready", "nomention"}

\* A message arrives that the handler ignores (lines 284-291).
IgnoredMessage(p, user, why) ==
    /\ handlers[p].pc = "idle"
    /\ handlers' = [handlers EXCEPT ![p] =
          Started("mention", user, "", "done", <<Check(why, "reject")>>)]
    /\ UNCHANGED <<now, ticks, userLastRequest, modelRestrictionEnabled, lastAccepted, regVars, choiceCall, registrar>>

\* Mutant of MentionChecks: a mention is answered without a rate-limit
\* check of its own, and without a record of its time.
MentionChecks_NoLimit(user, hasQuestion) ==
    IF ~hasQuestion
    THEN [pc |-> "awaitReply", map |-> userLastRequest, accepted |-> FALSE,
          log |-> <<Check("question", "reject"), Call("message.reply", "cantRead")>>]
    ELSE [pc |-> "awaitThinking", map |-> userLastRequest, accepted |-> FALSE,
          log |-> <<Check("question", "pass"), Call("thinking.send", "thinking")>>]

\* Lines 293-319: the question check, the rate-limit check and the post of
\* the placeholder.
MentionChecks(user, hasQuestion) ==
    LET r == checkRateLimit(userLastRequest, user, now)
    IN  IF ~hasQuestion
        THEN [pc |-> "awaitReply", map |-> userLastRequest, accepted |-> FALSE,
              log |-> <<Check("question", "reject"), Call("message.reply", "cantRead")>>]
        ELSE IF r.error # Null
        THEN [pc |-> "awaitReply", map |-> r.map, accepted |-> FALSE,
              log |-> <<Check("question", "pass"), RateLimitEntry(r),
                        Call("message.reply", "rateLimit")>>]
        ELSE [pc |-> "awaitThinking", map |-> r.map, accepted |-> TRUE,
              log |-> <<Check("question", "pass"), RateLimitEntry(r),
                        Call("thinking.send", "thinking")>>]

\* A user's message that mentions the bot arrives in a server; hasQuestion
\* is whether text remains once the mention is stripped.
MentionMessage(p, user, hasQuestion) ==
    /\ handlers[p].pc = "idle"
    /\ LET a == MentionChecks(user, hasQuestion)
       IN  /\ handlers' = [handlers EXCEPT ![p] = Started("mention", user, FreeModel, a.pc, a.log)]
           /\ userLastRequest' = a.map
           /\ lastAccepted' = Accepted(a.accepted, user)
    /\ UNCHANGED <<now, ticks, modelRestrictionEnabled, regVars, choiceCall, registrar>>

(***************************************************************************)
(* The handlers from one await to the next                                 *)
(***************************************************************************)
\* Only the handlers change.
OnlyHandlers ==
    UNCHANGED <<now, ticks, userLastRequest, modelRestrictionEnabled, lastAccepted, regVars, choiceCall, registrar>>

\* Handler h at pc, its awaited call settled with res and err, and calls
\* appended to its log.
Goes(h, res, err, pc, calls2) ==
    [h EXCEPT !.pc = pc, !.log = Settle(h.log, res, err) \o calls2]

Outcome(ok) == IF ok THEN "ok" ELSE "failed"

\* Mutant of Sorry: the acknowledgment is edited to the text of the error.
Sorry_ExposesError(h, res, err) == Goes(h, res, err, "awaitSorry", <<Call("editReply", "error")>>)

\* The catch block of /askllm (lines 142-148) and of /summarize (lines
\* 244-247): the acknowledgment is edited to the apology.
Sorry(h, res, err) == Goes(h, res, err, "awaitSorry", <<Call("editReply", "sorry")>>)

\* The reply of a handler that ends with it settles: a rejection, the
\* toggle's status (try { await ...reply(...) } catch (_) {}).
ReplySettles(p, ok) ==
    /\ handlers[p].pc = "awaitReply"
    /\ handlers' = [handlers EXCEPT ![p] = Goes(@, Outcome(ok), NoErr, "done", << >>)]
    /\ OnlyHandlers

\* /askllm: deferReply settles, either way (line 107), and the model is
\* called (line 110).
AskDeferSettles(p) ==
    /\ handlers[p].pc = "awaitDefer"
    /\ handlers[p].kind = "askllm"
    /\ handlers' = [handlers EXCEPT ![p] = Goes(@, "settled", NoErr, "awaitLLM", <<Call("llm", "")>>)]
    /\ OnlyHandlers

\* channel.messages.fetch({limit, before}): the `limit` most recent
\* messages older than message `before`, most recent first.
Batch(chan, limit, before) ==
    LET Older(m) == before = Null \/ m.id < before[1]
        older == SelectSeq(chan, Older)
    IN  IF Len(older) <= limit THEN older ELSE SubSeq(older, 1, limit)

\* (msg.content || '').trim() on the contents the model uses.
Trim(content) == IF content \in {"", " "} THEN "" ELSE content

\* Lines 194-199: the messages of a batch that are collected.
Kept(batch, includeBots) ==
    LET Keep(m) == (includeBots \/ ~m.bot) /\ Trim(m.content) # ""
    IN  SelectSeq(batch, Keep)

RECURSIVE Insert(_, _)
\* m inserted into a list sorted by createdTimestamp, after its equals.
Insert(m, sorted) ==
    IF sorted = << >> THEN <<m>>
    ELSE IF m.createdTimestamp < Head(sorted).createdTimestamp THEN <<m>> \o sorted
    ELSE <<Head(sorted)>> \o Insert(m, Tail(sorted))

\* Mutant of SortByTime: the messages stay in the order of the fetches.
SortByTime_FetchOrder(l) == l

RECURSIVE SortByTime(_)
\* collected.sort((a, b) => a.createdTimestamp - b.createdTimestamp)
SortByTime(l) ==
    IF l = << >> THEN << >> ELSE Insert(l[Len(l)], SortByTime(SubSeq(l, 1, Len(l) - 1)))

\* Lines 207-211: one line per collected message, here the message's id.
Plain(collected) == [i \in 1..Len(collected) |-> collected[i].id]

\* Mutant of Remaining: every fetch asks for the platform's maximum.
Remaining_Maximum(h) == 100

\* Math.min(100, limit - collected.length)
Remaining(h) == IF h.limit - Len(h.collected) < 100 THEN h.limit - Len(h.collected) ELSE 100

\* Lines 204-231, after the loop: the transcript is built and the model
\* called, or the acknowledgment edited when nothing is left.
AfterLoop(h) ==
    LET plain == Plain(SortByTime(h.collected))
        done == [h EXCEPT !.limit = 0, !.includeBots = FALSE, !.chan = << >>,
                          !.collected = << >>, !.lastId = Null, !.plain = plain]
    IN  IF plain = << >>
        THEN Goes(done, "ok", NoErr, "awaitNoMessages", <<Call("editReply", "noMessages")>>)
        ELSE Goes(done, "ok", NoErr, "awaitLLM", <<Call("llm", "")>>)

\* Lines 190-192: the loop's test and the next fetch; interaction.channel
\* may be null, and `.messages` then throws.
LoopTest(h, res, hasChannel) ==
    IF Len(h.collected) >= h.limit THEN AfterLoop(h)
    ELSE IF ~hasChannel THEN Sorry(h, res, NoErr)
    ELSE Goes(h, res, NoErr, "awaitFetch",
              <<LogEntry("fetch", "", "pending", NoErr, Remaining(h))>>)

\* /summarize: deferReply settles, either way (line 184), and the loop is
\* entered.
SummarizeDeferSettles(p, hasChannel) ==
    /\ handlers[p].pc = "awaitDefer"
    /\ handlers[p].kind = "summarize"
    /\ handlers' = [handlers EXCEPT ![p] = LoopTest(@, "settled", hasChannel)]
    /\ OnlyHandlers

\* /summarize: a fetch of the history settles (lines 192-201).
HistoryFetchSettles(p, ok, hasChannel) ==
    /\ handlers[p].pc = "awaitFetch"
    /\ LET h == handlers[p]
           batch == Batch(h.chan, h.log[Len(h.log)].n, h.lastId)
           more == [h EXCEPT !.collected = @ \o Kept(batch, h.includeBots),
                             !.lastId = Some(batch[Len(batch)].id)]
       IN  handlers' = [handlers EXCEPT ![p] =
              IF ~ok THEN Sorry(h, "failed", NoErr)
              ELSE IF batch = << >> THEN AfterLoop(h)
              ELSE IF more.lastId[1] = 0 THEN AfterLoop(more)
              ELSE LoopTest(more, "ok", hasChannel)]
    /\ OnlyHandlers

\* /summarize: the edit that says no message was found settles (lines
\* 213-216); a failure is caught by the handler's catch block.
NoMessagesSettles(p, ok) ==
    /\ handlers[p].pc = "awaitNoMessages"
    /\ handlers' = [handlers EXCEPT ![p] =
          IF ok THEN Goes(@, "ok", NoErr, "done", << >>) ELSE Sorry(@, "failed", NoErr)]
    /\ OnlyHandlers

\* Mention: the post of the placeholder settles (lines 318-322) and the
\* model is called.
ThinkingSettles(p, ok) ==
    /\ handlers[p].pc = "awaitThinking"
    /\ handlers' = [handlers EXCEPT ![p] =
          [Goes(@, Outcome(ok), NoErr, "awaitLLM", <<Call("llm", "")>>) EXCEPT !.thinkingMsg = ok]]
    /\ OnlyHandlers

\* What a handler does once createChatCompletion settled: /askllm lines
\* 110-124 and 142-147, /summarize lines 225-234 and 244-246, mention lines
\* 322-337 and 346-348.
AfterLLM(h, ok) ==
    LET gone == [h EXCEPT !.plain = << >>]
    IN  IF h.kind = "mention"
        THEN IF ~ok THEN Goes(h, "failed", NoErr, "done", << >>)
             ELSE IF h.thinkingMsg
             THEN Goes(h, "ok", NoErr, "awaitThinkingDelete", <<Call("thinking.delete", "")>>)
             ELSE Goes(h, "ok", NoErr, "awaitSend", <<Call("channel.send", "final")>>)
        ELSE IF ~ok THEN Sorry(gone, "failed", NoErr)
             ELSE Goes(gone, "ok", NoErr, "awaitDelete", <<Call("deleteReply", "")>>)

\* createChatCompletion settles.
LLMSettles(p, ok) ==
    /\ handlers[p].pc = "awaitLLM"
    /\ handlers' = [handlers EXCEPT ![p] = AfterLLM(@, ok)]
    /\ OnlyHandlers

\* Mention: the delete of the placeholder settles, either way (lines
\* 333-335), and the answer is posted.
ThinkingDeleteSettles(p) ==
    /\ handlers[p].pc = "awaitThinkingDelete"
    /\ handlers' = [handlers EXCEPT ![p] =
          Goes(@, "settled", NoErr, "awaitSend", <<Call("channel.send", "final")>>)]
    /\ OnlyHandlers

\* Commands: deleteReply settles, either way, and the answer is posted in
\* the channel (lines 122-126, 234-235); with interaction.channel null,
\* `interaction.channel?.send(final)` is undefined and nothing is posted.
DeleteSettles(p, hasChannel) ==
    /\ handlers[p].pc = "awaitDelete"
    /\ handlers' = [handlers EXCEPT ![p] =
          IF hasChannel
          THEN Goes(@, "settled", NoErr, "awaitSend", <<Call("channel.send", "final")>>)
          ELSE Goes(@, "settled", NoErr, "done",
                    <<LogEntry("channel.send", "final", "nochannel", NoErr, 0)>>)]
    /\ OnlyHandlers

\* sendErr?.code || sendErr?.rawError?.code || sendErr?.status
ErrCode(err) ==
    IF err.code # 0 THEN err.code ELSE IF err.raw # 0 THEN err.raw ELSE err.status

\* Mutant of IsPermissionError: every error of the post leads to the
\* direct message.
IsPermissionError_Any(err) == TRUE

\* code === 50001 || code === 50013 || code === 403
IsPermissionError(err) == ErrCode(err) \in {50001, 50013, 403}

\* What a handler does once the channel post failed with err: lines
\* 127-140, 236-242, 338-344.
AfterSendError(h, err) ==
    IF IsPermissionError(err)
    THEN Goes(h, "failed", err, "awaitDM", <<Call("user.send", "final")>>)
    ELSE IF h.kind = "mention" THEN Goes(h, "failed", err, "done", << >>)
    ELSE Sorry(h, "failed", err)

\* The channel post settles: it succeeded (NoErr) or threw err.
SendSettles(p, err) ==
    /\ handlers[p].pc = "awaitSend"
    /\ handlers' = [handlers EXCEPT ![p] =
          IF err = NoErr THEN Goes(@, "ok", NoErr, "done", << >>) ELSE AfterSendError(@, err)]
    /\ OnlyHandlers

\* Mutant of AfterDM: the answer is also sent as a follow-up after a direct
\* message that succeeded.
AfterDM_AlwaysFollowUp(h, ok) ==
    IF h.kind = "mention" THEN Goes(h, Outcome(ok), NoErr, "done", << >>)
    ELSE Goes(h, Outcome(ok), NoErr, "awaitFollowUp", <<Call("followUp", "final")>>)

\* What a handler does once the direct message settled: lines 131-137, 239,
\* 341.
AfterDM(h, ok) ==
    IF h.kind = "mention" THEN Goes(h, Outcome(ok), NoErr, "done", << >>)
    ELSE IF ok THEN Goes(h, "ok", NoErr, "awaitNotice", <<Call("editReply", "dmNotice")>>)
    ELSE Goes(h, "failed", NoErr, "awaitFollowUp", <<Call("followUp", "final")>>)

\* The direct message settles.
DMSettles(p, ok) ==
    /\ handlers[p].pc = "awaitDM"
    /\ handlers' = [handlers EXCEPT ![p] = AfterDM(@, ok)]
    /\ OnlyHandlers

\* Commands: the edit that tells of the direct message settles (lines 133,
\* 239).
NoticeSettles(p, ok) ==
    /\ handlers[p].pc = "awaitNotice"
    /\ handlers' = [handlers EXCEPT ![p] = Goes(@, Outcome(ok), NoErr, "done", << >>)]
    /\ OnlyHandlers

\* Commands: the follow-up settles; when it failed, the acknowledgment is
\* edited to the answer (lines 136, 239).
FollowUpSettles(p, ok) ==
    /\ handlers[p].pc = "awaitFollowUp"
    /\ handlers' = [handlers EXCEPT ![p] =
          IF ok THEN Goes(@, "ok", NoErr, "done", << >>)
          ELSE Goes(@, "failed", NoErr, "awaitEditFinal", <<Call("editReply", "final")>>)]
    /\ OnlyHandlers

\* Commands: the edit to the answer settles; its failure is thrown to the
\* handler's catch block.
EditFinalSettles(p, ok) ==
    /\ handlers[p].pc = "awaitEditFinal"
    /\ handlers' = [handlers EXCEPT ![p] =
          IF ok THEN Goes(@, "ok", NoErr, "done", << >>) ELSE Sorry(@, "failed", NoErr)]
    /\ OnlyHandlers

\* Commands: the edit to the apology settles (lines 145-147, 246).
SorrySettles(p, ok) ==
    /\ handlers[p].pc = "awaitSorry"
    /\ handlers' = [handlers EXCEPT ![p] = Goes(@, Outcome(ok), NoErr, "done", << >>)]
    /\ OnlyHandlers

\* The handler has returned; its slot is free again.
Forget(p) ==
    /\ handlers[p].pc = "done"
    /\ handlers' = [handlers EXCEPT ![p] = IdleHandler]
    /\ OnlyHandlers

\* The process has started; n handlers may be in flight together.
BotInit(n) ==
    /\ now = StartTime
    /\ ticks = 0
    /\ userLastRequest = [u \in Users |-> Null]
    /\ modelRestrictionEnabled = FALSE
    /\ handlers = [p \in 1..n |-> IdleHandler]
    /\ lastAccepted = [u \in Users |-> Null]

\* The events of the platform and the settling of the awaited calls.
BotNext ==
    \/ \E d \in TickSteps : Tick(d)
    \/ \E p \in Slots, u \in Users, cmd \in {"askllm", "summarize", "toggle_model_restriction"} :
          DirectMessageCommand(p, cmd, u)
    \/ \E p \in Slots, u \in Users, m \in Models : AskCommand(p, u, m)
    \/ \E p \in Slots, u \in Users, l \in LimitOptions, b \in BOOLEAN, c \in Channels :
          SummarizeCommand(p, u, FreeModel, l, b, c)
    \/ \E p \in Slots, u \in Users : ToggleCommand(p, u)
    \/ \E p \in Slots, u \in Users : OtherCommand(p, u)
    \/ \E p \in Slots, u \in Users, why \in IgnoreReasons : IgnoredMessage(p, u, why)
    \/ \E p \in Slots, u \in Users, q \in BOOLEAN : MentionMessage(p, u, q)
    \/ \E p \in Slots, ok \in BOOLEAN : ReplySettles(p, ok)
    \/ \E p \in Slots : AskDeferSettles(p)
    \/ \E p \in Slots, c \in BOOLEAN : SummarizeDeferSettles(p, c)
    \/ \E p \in Slots, ok \in BOOLEAN, c \in BOOLEAN : HistoryFetchSettles(p, ok, c)
    \/ \E p \in Slots, ok \in BOOLEAN : NoMessagesSettles(p, ok)
    \/ \E p \in Slots, ok \in BOOLEAN : ThinkingSettles(p, ok)
    \/ \E p \in Slots, ok \in BOOLEAN : LLMSettles(p, ok)
    \/ \E p \in Slots : ThinkingDeleteSettles(p)
    \/ \E p \in Slots, c \in BOOLEAN : DeleteSettles(p, c)
    \/ \E p \in Slots, e \in {NoErr} \cup SendErrors : SendSettles(p, e)
    \/ \E p \in Slots, ok \in BOOLEAN : DMSettles(p, ok)
    \/ \E p \in Slots, ok \in BOOLEAN : NoticeSettles(p, ok)
    \/ \E p \in Slots, ok \in BOOLEAN : FollowUpSettles(p, ok)
    \/ \E p \in Slots, ok \in BOOLEAN : EditFinalSettles(p, ok)
    \/ \E p \in Slots, ok \in BOOLEAN : SorrySettles(p, ok)
    \/ \E p \in Slots : Forget(p)

\* No call of getModelChoices is modelled, and none of register().
ChoicesIdle == choiceCall = [in |-> << >>, out |-> Null] /\ registrar = IdleRegistrar

\* The registry is not used: no cache file, no call.
RegIdle == RegInit /\ cacheFile = FileAbsent

\* One handler runs at a time.  The registry is not used while the router
\* runs.
Init == BotInit(1) /\ RegIdle /\ ChoicesIdle

\* The router, one event after the other: every event, and every outcome
\* of every awaited call.  A handler reads and writes the shared state
\* (userLastRequest, modelRestrictionEnabled) only before its first await,
\* so what it does afterwards does not depend on the handlers in flight
\* with it; SpecConcurrent interleaves the handlers.
Spec == Init /\ [][BotNext]_vars

\* The router where every fetch of the channel history settles.
SpecFetchesSettle ==
    /\ Init
    /\ [][BotNext]_vars
    /\ WF_vars(\E p \in Slots, ok \in BOOLEAN, c \in BOOLEAN : HistoryFetchSettles(p, ok, c))

\* The channel history used where handlers run concurrently.
BusyChannel ==
    <<Msg(4, FALSE, "text"), Msg(3, TRUE, "text"), Msg(2, FALSE, " "), Msg(1, FALSE, "text")>>

\* The events of the platform and the settling of the awaited calls, where
\* every call of the platform and of the model succeeds.
ConcurrentNext ==
    \/ \E d \in TickSteps : Tick(d)
    \/ \E p \in Slots, u \in Users, m \in Models : AskCommand(p, u, m)
    \/ \E p \in Slots, u \in Users : SummarizeCommand(p, u, FreeModel, Null, FALSE, BusyChannel)
    \/ \E p \in Slots, u \in Users : ToggleCommand(p, u)
    \/ \E p \in Slots, u \in Users : MentionMessage(p, u, TRUE)
    \/ \E p \in Slots : ReplySettles(p, TRUE)
    \/ \E p \in Slots : AskDeferSettles(p)
    \/ \E p \in Slots : SummarizeDeferSettles(p, TRUE)
    \/ \E p \in Slots : HistoryFetchSettles(p, TRUE, TRUE)
    \/ \E p \in Slots : ThinkingSettles(p, TRUE)
    \/ \E p \in Slots : LLMSettles(p, TRUE)
    \/ \E p \in Slots : ThinkingDeleteSettles(p)
    \/ \E p \in Slots : DeleteSettles(p, TRUE)
    \/ \E p \in Slots : SendSettles(p, NoErr)
    \/ \E p \in Slots : Forget(p)

ConcurrentInit == BotInit(NumSlots) /\ RegIdle /\ ChoicesIdle

\* The router with NumSlots handlers in flight together, each suspended at
\* the awaits of its main path, in every interleaving.
SpecConcurrent == ConcurrentInit /\ [][ConcurrentNext]_vars

\* The router is not running.
BotIdle == BotInit(1)

ModelsInit == RegInit /\ ChoicesIdle /\ BotIdle

\* The model registry: calls of getAvailableModels and clearCache.
SpecModels == ModelsInit /\ [][RegNext]_vars

ChoiceArgsInit == RegIdle /\ ChoicesInit /\ BotIdle /\ registrar = IdleRegistrar

\* getModelChoices on every argument list.
SpecChoices == ChoiceArgsInit /\ [][ChoicesNext]_vars

(***************************************************************************)
(* The registrar, src/unnamed/part_000                                     *)
(***************************************************************************)
\* An option of a command; choices is empty where the builder sets none.
Option(name, type, required, choices) ==
    [name |-> name, type |-> type, required |-> required, choices |-> choices]

\* A command of the schema; adminOnly is setDefaultMemberPermissions(
\* PermissionFlagsBits.Administrator).
Command(name, adminOnly, options) ==
    [name |-> name, adminOnly |-> adminOnly, options |-> options]

\* buildCommands(modelChoices)
buildCommands(modelChoices) ==
    LET ask == Command("askllm", FALSE,
                   <<Option("model", "string", TRUE, modelChoices),
                     Option("question", "string", TRUE, << >>)>>)
        summarize == Command("summarize", FALSE,
                   <<Option("limit", "integer", FALSE, << >>),
                     Option("include_bots", "boolean", FALSE, << >>),
                     Option("model", "string", FALSE, modelChoices)>>)
        refreshModels == Command("refresh_models", TRUE, << >>)
    IN  <<ask, summarize, refreshModels>>

\* The names of the commands of schema commands.
CommandNames(commands) == {commands[i].name : i \in 1..Len(commands)}

\* Errors rest.put may reject with: missing access, missing access reported
\* in rawError only, missing permissions, a bare HTTP 403 and a server
\* error.
PutErrors ==
    {Err(50001, 50001, 403), Err(0, 50001, 403), Err(50013, 50013, 403),
     Err(0, 0, 403), Err(0, 0, 500)}

\* A publish of the schema: the scope, the body, how it settled.
Put(scope, commands) ==
    [op |-> "put", scope |-> scope, body |-> commands, res |-> "pending", err |-> NoErr]

\* The registrar's log with its last publish settled.
PutSettled(log, res, err) ==
    [log EXCEPT ![Len(log)] = [@ EXCEPT !.res = res, !.err = err]]

\* Mutant of IsMissingAccess: missing permissions count as missing access.
IsMissingAccess_AnyPermission(err) ==
    (IF err.code # 0 THEN err.code ELSE err.raw) \in {50001, 50013}

\* const code = err?.code || err?.rawError?.code; code === 50001
IsMissingAccess(err) == (IF err.code # 0 THEN err.code ELSE err.raw) = 50001

\* register(forceRefreshModels) is called, by the main block with true
\* (lines 101-106) or by a module that imports it: up to the fetch inside
\* getAvailableModels, which runs in call slot 1.
Register(main, force) ==
    /\ registrar.pc = "idle"
    /\ calls[1].pc = "idle"
    /\ main => force
    /\ LET s == SyncPart(cachedModels, cacheFile, force)
       IN  /\ cachedModels' = s.mem
           /\ calls' = [calls EXCEPT ![1] =
                 [pc |-> IF s.returns THEN "returned" ELSE "fetching",
                  force |-> force, resp |-> Null, io |-> s.io, ret |-> s.ret]]
    /\ registrar' = [IdleRegistrar EXCEPT !.pc = "awaitModels", !.main = main, !.force = force]
    /\ UNCHANGED <<cacheFile, choiceCall, botVars>>

\* getAvailableModels has returned: the choices and the schema are built
\* and published to the server (lines 74-83).
ModelsReturn ==
    /\ registrar.pc = "awaitModels"
    /\ calls[1].pc = "returned"
    /\ LET models == calls[1].ret[1]
           commands == buildCommands(getModelChoices(models))
       IN  registrar' = [registrar EXCEPT !.pc = "awaitGuildPut",
                                          !.ret = Some(models),
                                          !.log = <<Put("guild", commands)>>]
    /\ calls' = [calls EXCEPT ![1] = IdleCall]
    /\ UNCHANGED <<cachedModels, cacheFile, choiceCall, botVars>>

\* register() resolves: the process of the main block ends with code 0.
Resolved(r, err) ==
    [r EXCEPT !.pc = "resolved", !.log = PutSettled(r.log, "ok", err),
              !.exit = IF r.main THEN Some(0) ELSE Null]

\* register() rejects with err: the main block's catch calls
\* process.exit(1) (lines 102-105).
Rejected(r, err) ==
    [r EXCEPT !.pc = "rejected", !.log = PutSettled(r.log, "failed", err), !.ret = Null,
              !.exit = IF r.main THEN Some(1) ELSE Null]

\* The publish to the server settles (lines 80-96): it succeeded (NoErr) or
\* threw err.
GuildPutSettles(err) ==
    /\ registrar.pc = "awaitGuildPut"
    /\ registrar' =
          IF err = NoErr THEN Resolved(registrar, NoErr)
          ELSE IF IsMissingAccess(err)
          THEN [registrar EXCEPT !.pc = "awaitGlobalPut",
                   !.log = PutSettled(registrar.log, "failed", err)
                             \o <<Put("global", registrar.log[1].body)>>]
          ELSE Rejected(registrar, err)
    /\ UNCHANGED <<regVars, choiceCall, botVars>>

\* The publish at global scope settles (line 92).
GlobalPutSettles(err) ==
    /\ registrar.pc = "awaitGlobalPut"
    /\ registrar' = IF err = NoErr THEN Resolved(registrar, NoErr) ELSE Rejected(registrar, err)
    /\ UNCHANGED <<regVars, choiceCall, botVars>>

\* The importing module has the outcome of its call of register().
RegisterOver ==
    /\ registrar.pc \in {"resolved", "rejected"}
    /\ ~registrar.main
    /\ registrar' = IdleRegistrar
    /\ UNCHANGED <<regVars, choiceCall, botVars>>

\* The process of the registrar has started: nothing in memory, any cache
\* file on disk.
RegisterInit ==
    /\ cachedModels = Null
    /\ cacheFile \in CacheFiles
    /\ calls = [c \in CallIds |-> IdleCall]
    /\ choiceCall = [in |-> << >>, out |-> Null]
    /\ registrar = IdleRegistrar
    /\ BotIdle

RegisterNext ==
    \/ \E main \in BOOLEAN, force \in BOOLEAN : Register(main, force)
    \/ \E resp \in Responses, writeOk \in BOOLEAN : FetchSettles(1, resp, writeOk)
    \/ ModelsReturn
    \/ \E err \in {NoErr} \cup PutErrors : GuildPutSettles(err)
    \/ \E err \in {NoErr} \cup PutErrors : GlobalPutSettles(err)
    \/ RegisterOver

\* The registrar: calls of register(), one after the other.
SpecRegister == RegisterInit /\ [][RegisterNext]_vars

(***************************************************************************)
(* Properties of the router                                                *)
(***************************************************************************)
\* A handler starts in slot p in this step.
Arrives(p) == handlers[p].pc = "idle" /\ handlers'[p].pc # "idle"

\* The positions of log l whose entry is a call or check `op`.
At(l, op) == {i \in 1..Len(l) : l[i].op = op}

\* The positions of log l where check `op` ended with `res`.
Checked(l, op, res) == {i \in At(l, op) : l[i].res = res}

\* The positions of log l where a call `op` sending `content` settled with
\* `res`.
Sent(l, op, content, res) ==
    {i \in At(l, op) : l[i].content = content /\ l[i].res = res}

\* The cooldown in milliseconds.
CooldownMs == RATE_LIMIT_SECONDS * 1000

\* C1: once a request by u is allowed at time t, a request by u at a time
\* t' with t <= t' < t + 20 s is rejected with a wait N, 0 < N <= 20, and a
\* request by u at t' >= t + 20 s, with no allowed request in between, is
\* allowed.
C1_Cooldown ==
    [][\A p \in DOMAIN handlers : \A i \in At(handlers'[p].log, "checkRateLimit") :
          Arrives(p) =>
             LET e == handlers'[p].log[i]
                 t == lastAccepted[handlers'[p].user]
             IN  IF t # Null /\ now < t[1] + CooldownMs
                 THEN e.res = "reject" /\ 0 < e.n /\ e.n <= 20
                 ELSE e.res = "pass"]_vars

\* A request was rejected with one second to wait, 19999 ms after the last
\* allowed request of its user.
C1_Witness ==
    \E p \in DOMAIN handlers : \E i \in Checked(handlers[p].log, "checkRateLimit", "reject") :
        /\ handlers[p].log[i].n = 1
        /\ lastAccepted[handlers[p].user] = Some(now - CooldownMs + 1)

\* C2: in every interleaving of the handlers in flight, a request is allowed
\* only if the last allowed request of its user is at least 20 s old, and
\* the step that allows it also writes its timestamp, which the next check
\* reads.
C2_NeverBothPass ==
    [][\A p \in DOMAIN handlers : \A i \in Checked(handlers'[p].log, "checkRateLimit", "pass") :
          Arrives(p) =>
             LET u == handlers'[p].user
                 t == lastAccepted[u]
             IN  /\ t = Null \/ now - t[1] >= CooldownMs
                 /\ userLastRequest'[u] = Some(now)
                 /\ \A q \in DOMAIN handlers \ {p} : handlers'[q] = handlers[q]]_vars

\* Two requests of one user, one through /askllm and one through a mention,
\* are in flight together: the first was allowed and is suspended at an
\* await, the second arrived less than 20 s later and was rejected.
C2_Witness ==
    \E p, q \in DOMAIN handlers :
        /\ p # q
        /\ handlers[p].user = handlers[q].user
        /\ handlers[p].kind = "askllm"
        /\ handlers[q].kind = "mention"
        /\ handlers[p].pc = "awaitLLM"
        /\ Checked(handlers[p].log, "checkRateLimit", "pass") # {}
        /\ Checked(handlers[q].log, "checkRateLimit", "reject") # {}

\* C3: with the restriction enabled, /askllm by a non-administrator for a
\* model other than asi1-mini is rejected and the model is never called for
\* it; an administrator asking for that model is not rejected by the
\* restriction check.
C3_Restriction ==
    [][\A p \in DOMAIN handlers :
          LET h == handlers'[p]
          IN  /\ (Arrives(p) /\ h.kind = "askllm" /\ Checked(h.log, "guild", "pass") # {}
                    /\ modelRestrictionEnabled /\ h.model # "asi1-mini") =>
                   IF h.user \in Admins
                   THEN At(h.log, "restriction") \subseteq Checked(h.log, "restriction", "pass")
                   ELSE /\ h.pc = "awaitReply"
                        /\ h.log[Len(h.log)].op = "reply"
                        /\ At(h.log, "llm") = {}
              /\ Checked(h.log, "restriction", "reject") # {} =>
                   At(h.log, "deferReply") = {} /\ At(h.log, "llm") = {}]_vars

\* A non-administrator asked for gpt-x while the restriction was enabled;
\* the handler replied with the restriction message and returned without a
\* call of the model.
C3_Witness ==
    \E p \in DOMAIN handlers :
        /\ handlers[p].kind = "askllm"
        /\ handlers[p].user = "bob"
        /\ handlers[p].model = "gpt-x"
        /\ handlers[p].pc = "done"
        /\ Checked(handlers[p].log, "checkRateLimit", "pass") # {}
        /\ Sent(handlers[p].log, "reply", "restricted", "ok") # {}
        /\ At(handlers[p].log, "llm") = {}

\* C8: /askllm checks the server context, then the rate limit, then the
\* model restriction, then calls deferReply, then the model: the model is
\* called only after deferReply, deferReply only after the three checks
\* passed, and a check that rejects is followed by the rejection reply and
\* by nothing else.
C8_AskOrder ==
    \A p \in DOMAIN handlers :
        LET l == handlers[p].log
        IN  handlers[p].kind = "askllm" =>
              /\ l[1].op = "guild"
              /\ \A i \in At(l, "checkRateLimit") : i = 2 /\ l[1].res = "pass"
              /\ \A i \in At(l, "restriction") : i = 3 /\ l[2].res = "pass" /\ l[2].op = "checkRateLimit"
              /\ \A i \in At(l, "deferReply") :
                    /\ i = 4
                    /\ l[3].op = "restriction"
                    /\ \A j \in 1..3 : l[j].res = "pass"
              /\ \A i \in At(l, "llm") : i = 5 /\ l[4].op = "deferReply" /\ l[4].res = "settled"
              /\ \A i \in 1..Len(l) : l[i].res = "reject" =>
                    /\ Len(l) = i + 1
                    /\ l[i + 1].op = "reply"
                    /\ At(l, "deferReply") = {}
                    /\ At(l, "llm") = {}
              /\ (handlers[p].pc = "done" /\ \A i \in 1..Len(l) : l[i].res # "reject") =>
                    At(l, "deferReply") # {} /\ At(l, "llm") # {}

\* /askllm passed its three checks, acknowledged, called the model and
\* posted the answer in the channel.
C8_Witness ==
    \E p \in DOMAIN handlers :
        /\ handlers[p].kind = "askllm"
        /\ handlers[p].pc = "done"
        /\ Checked(handlers[p].log, "restriction", "pass") # {}
        /\ Sent(handlers[p].log, "llm", "", "ok") # {}
        /\ Sent(handlers[p].log, "channel.send", "final", "ok") # {}

\* The routes by which log l delivered the answer: the channel post, the
\* direct message, the reply in place (a follow-up, or the acknowledgment
\* edited to the answer).
Delivered(l) ==
    Sent(l, "channel.send", "final", "ok") \cup Sent(l, "user.send", "final", "ok")
    \cup Sent(l, "followUp", "final", "ok") \cup Sent(l, "editReply", "final", "ok")

\* The handler of log l went to its catch block and edited the
\* acknowledgment to the apology.
Failed(l) == {i \in At(l, "editReply") : l[i].content = "sorry"}

\* C9: an /askllm handler that acknowledged ends either answered, the
\* answer delivered by exactly one route, or failed, the acknowledgment
\* edited to the apology, and never with both or with neither.
C9_AnsweredOrFailed ==
    \A p \in DOMAIN handlers :
        LET l == handlers[p].log
        IN  (handlers[p].kind = "askllm" /\ handlers[p].pc = "done" /\ At(l, "deferReply") # {}) =>
              /\ Cardinality(Delivered(l)) <= 1
              /\ (Cardinality(Delivered(l)) = 1) # (Failed(l) # {})

\* C10: after the model answered, /askllm and /summarize post in the
\* channel first; the direct message is sent only after the post failed
\* with code 50001, 50013 or 403, the reply in place only after the direct
\* message failed, and a post that failed with another error is followed by
\* the apology and by no direct message.
C10_DeliveryOrder ==
    \A p \in DOMAIN handlers :
        LET l == handlers[p].log
            Code(e) == IF e.code # 0 THEN e.code ELSE IF e.raw # 0 THEN e.raw ELSE e.status
        IN  handlers[p].kind \in {"askllm", "summarize"} =>
              /\ \A i \in At(l, "channel.send") :
                    /\ Sent(l, "llm", "", "ok") # {}
                    /\ l[i - 1].op = "deleteReply"
                    /\ (l[i].res = "failed" /\ Code(l[i].err) \notin {50001, 50013, 403}) =>
                          /\ At(l, "user.send") = {}
                          /\ At(l, "followUp") = {}
                          /\ Len(l) >= i + 1
                          /\ l[i + 1].op = "editReply" /\ l[i + 1].content = "sorry"
                    /\ l[i].res \in {"ok", "nochannel"} => Len(l) = i
              /\ \A i \in At(l, "user.send") :
                    /\ l[i - 1].op = "channel.send"
                    /\ l[i - 1].res = "failed"
                    /\ Code(l[i - 1].err) \in {50001, 50013, 403}
              /\ \A i \in At(l, "followUp") :
                    l[i - 1].op = "user.send" /\ l[i - 1].res = "failed"
              /\ \A i \in Sent(l, "editReply", "final", "ok") \cup Sent(l, "editReply", "final", "failed")
                             \cup Sent(l, "editReply", "final", "pending") :
                    l[i - 1].op = "followUp" /\ l[i - 1].res = "failed"

\* /summarize could not post in the channel (HTTP 403), could not send the
\* direct message either, and delivered the summary as a follow-up.
C10_Witness ==
    \E p \in DOMAIN handlers :
        LET l == handlers[p].log
        IN  /\ handlers[p].kind = "summarize"
            /\ handlers[p].pc = "done"
            /\ \E i \in At(l, "channel.send") : l[i].res = "failed" /\ l[i].err = Err(0, 0, 403)
            /\ Sent(l, "user.send", "final", "failed") # {}
            /\ Sent(l, "followUp", "final", "ok") # {}

\* C11: in /askllm, when the call of the model failed, or the channel post
\* failed with an error that is not a permission error, the next and last
\* call of the handler is the edit of the acknowledgment to the fixed
\* apology: no delivery follows, and nothing of the error is sent.
C11_GenericFailure ==
    \A p \in DOMAIN handlers :
        LET l == handlers[p].log
            Code(e) == IF e.code # 0 THEN e.code ELSE IF e.raw # 0 THEN e.raw ELSE e.status
            Broke(i) ==
                \/ l[i].op = "llm" /\ l[i].res = "failed"
                \/ /\ l[i].op = "channel.send"
                   /\ l[i].res = "failed"
                   /\ Code(l[i].err) \notin {50001, 50013, 403}
        IN  handlers[p].kind = "askllm" =>
              \A i \in 1..Len(l) : Broke(i) =>
                  /\ Len(l) = i + 1
                  /\ l[i + 1].op = "editReply"
                  /\ l[i + 1].content = "sorry"
                  /\ handlers[p].pc \in {"awaitSorry", "done"}

\* The model failed for an /askllm request, and the acknowledgment was
\* edited to the apology.
C11_Witness ==
    \E p \in DOMAIN handlers :
        /\ handlers[p].kind = "askllm"
        /\ handlers[p].pc = "done"
        /\ Sent(handlers[p].log, "llm", "", "failed") # {}
        /\ Sent(handlers[p].log, "editReply", "sorry", "ok") # {}

\* C12: a handler of /askllm, /summarize or a mention whose call of the
\* model failed has sent its user the apology when it returns.
C12_ApologyOnLLMFailure ==
    \A p \in DOMAIN handlers :
        LET l == handlers[p].log
        IN  (handlers[p].pc = "done" /\ Sent(l, "llm", "", "failed") # {}) =>
              \E i \in 1..Len(l) : l[i].content = "sorry"

\* C13: a mention handler that posted its placeholder has called the
\* placeholder's delete when it returns.
C13_PlaceholderDeleted ==
    \A p \in DOMAIN handlers :
        LET l == handlers[p].log
        IN  (handlers[p].kind = "mention" /\ handlers[p].pc = "done"
               /\ Sent(l, "thinking.send", "thinking", "ok") # {}) =>
              At(l, "thinking.delete") # {}

\* The messages of history chan that /summarize without include_bots
\* reads: not written by a bot, and not empty once trimmed.
Readable(chan) ==
    LET Reads(m) == ~m.bot /\ m.content \notin {"", " "}
    IN  SelectSeq(chan, Reads)

\* /summarize in slot p leaves its loop in this step and calls the model.
Submits(p) ==
    /\ handlers[p].kind = "summarize"
    /\ handlers[p].pc \in {"awaitDefer", "awaitFetch"}
    /\ handlers'[p].pc = "awaitLLM"

\* The lines of transcript plain are in ascending order of creation time.
Ascending(plain) == \A i, j \in 1..Len(plain) : i < j => plain[i] < plain[j]

\* C14 as stated: without include_bots, the transcript sent to the model has
\* as many lines as the channel has messages not written by a bot and not
\* empty, in ascending order of creation time.
C14_OneLinePerMessage ==
    [][\A p \in DOMAIN handlers :
          (Submits(p) /\ ~handlers[p].includeBots) =>
              /\ Len(handlers'[p].plain) = Len(Readable(handlers[p].chan))
              /\ Ascending(handlers'[p].plain)]_vars

\* C14 amended: without include_bots, the transcript sent to the model
\* holds the `limit` most recent messages not written by a bot and not
\* empty, all of them when the channel has fewer, one line each, in
\* ascending order of creation time.
C14_TranscriptLines ==
    [][\A p \in DOMAIN handlers :
          (Submits(p) /\ ~handlers[p].includeBots) =>
              LET plain == handlers'[p].plain
                  readable == Readable(handlers[p].chan)
                  n == IF Len(readable) < handlers[p].limit
                       THEN Len(readable) ELSE handlers[p].limit
              IN  /\ Len(plain) = n
                  /\ Ascending(plain)
                  /\ {plain[i] : i \in 1..Len(plain)} = {readable[i].id : i \in 1..n}]_vars

\* /summarize with limit 10 read a channel of 14 messages in two fetches and
\* sent the model the 10 most recent messages of users, oldest first.
C14_Witness ==
    \E p \in DOMAIN handlers :
        /\ handlers[p].kind = "summarize"
        /\ handlers[p].pc = "awaitLLM"
        /\ handlers[p].plain = <<2, 3, 4, 6, 7, 9, 10, 12, 13, 14>>

\* The handler that starts in slot p in this step is one of /askllm,
\* /summarize and mention, and it passed the checks that come before the
\* rate limit: the administrator check of /summarize, the question check of
\* a mention.
ReachesRateLimit(p) ==
    /\ Arrives(p)
    /\ LET h == handlers'[p]
       IN  \/ h.kind = "askllm" /\ Checked(h.log, "guild", "pass") # {}
           \/ h.kind = "summarize" /\ Checked(h.log, "admin", "pass") # {}
           \/ h.kind = "mention" /\ Checked(h.log, "question", "pass") # {}

\* C15: the cooldown is kept per user and shared by /askllm, /summarize and
\* mentions: a request of user u through any of them is rejected by the
\* rate limit exactly when a request of u, through whichever of them, was
\* allowed less than 20 s before, whatever the other users did, and it
\* leaves the other users' entries alone.
C15_SharedPerUser ==
    [][\A p \in DOMAIN handlers :
          ReachesRateLimit(p) =>
             LET h == handlers'[p]
                 t == lastAccepted[h.user]
                 recent == t # Null /\ now < t[1] + CooldownMs
             IN  /\ At(h.log, "checkRateLimit") # {}
                 /\ \A i \in At(h.log, "checkRateLimit") :
                       h.log[i].res = IF recent THEN "reject" ELSE "pass"
                 /\ lastAccepted'[h.user] = IF recent THEN t ELSE Some(now)
                 /\ \A v \in Users \ {h.user} :
                       /\ userLastRequest'[v] = userLastRequest[v]
                       /\ lastAccepted'[v] = lastAccepted[v]]_vars

\* While an /askllm request of alice that was allowed is still in flight, a
\* /summarize request of hers is rejected by the rate limit.
C15_Witness ==
    \E p, q \in DOMAIN handlers :
        /\ p # q
        /\ handlers[p].user = "alice"
        /\ handlers[q].user = "alice"
        /\ handlers[p].kind = "askllm"
        /\ handlers[q].kind = "summarize"
        /\ handlers[p].pc = "awaitLLM"
        /\ Checked(handlers[p].log, "checkRateLimit", "pass") # {}
        /\ Checked(handlers[q].log, "checkRateLimit", "reject") # {}
        /\ userLastRequest["bob"] = Null

\* C16: a call of checkRateLimit that rejects leaves the map as it was, so
\* that the user's entry stays the time of the last allowed request; a call
\* that allows sets the user's entry to the current time and no other.
C16_MapFrame ==
    [][\A p \in DOMAIN handlers : \A i \in At(handlers'[p].log, "checkRateLimit") :
          Arrives(p) =>
             LET u == handlers'[p].user
             IN  /\ handlers'[p].log[i].res = "reject" =>
                       /\ userLastRequest' = userLastRequest
                       /\ userLastRequest'[u] = lastAccepted[u]
                 /\ handlers'[p].log[i].res = "pass" =>
                       userLastRequest' = [userLastRequest EXCEPT ![u] = Some(now)]
                 /\ userLastRequest' = lastAccepted']_vars

\* A second request of a user was rejected a second after the first
\* rejected one: the entry is still the time of the allowed request, which
\* the wait reported counts from.
C16_Witness ==
    \E p \in DOMAIN handlers : \E i \in Checked(handlers[p].log, "checkRateLimit", "reject") :
        /\ handlers[p].log[i].n = 20
        /\ ticks = 2
        /\ userLastRequest[handlers[p].user] = Some(now - 2)
        /\ \E v \in Users : userLastRequest[v] = Null

\* The names of the commands the registrar publishes.
Published == CommandNames(buildCommands(<< >>))

\* C17: the commands published are the commands handled: when the handler
\* of an in-server interaction has returned, it has replied to or
\* acknowledged the interaction if the command is one the registrar
\* publishes, and only then.
C17_PublishedIsHandled ==
    \A p \in DOMAIN handlers :
        LET l == handlers[p].log
        IN  (handlers[p].pc = "done" /\ Checked(l, "guild", "pass") # {}) =>
              (handlers[p].kind \in Published <=> At(l, "reply") \cup At(l, "deferReply") # {})

\* The handlers of /toggle_model_restriction that start in this step, in a
\* server, for an administrator.
AdminToggles ==
    {p \in DOMAIN handlers :
        /\ Arrives(p)
        /\ handlers'[p].kind = "toggle_model_restriction"
        /\ Checked(handlers'[p].log, "guild", "pass") # {}
        /\ handlers'[p].user \in Admins}

\* C18: the restriction flag is false when the process starts; a
\* /toggle_model_restriction of an administrator flips it, and no other
\* step changes it.
C18_FlagToggle ==
    /\ modelRestrictionEnabled = FALSE
    /\ [][modelRestrictionEnabled' =
            IF AdminToggles # {} THEN ~modelRestrictionEnabled
            ELSE modelRestrictionEnabled]_vars

\* An administrator's second toggle has set the flag back to false.
C18_Witness ==
    \E p \in DOMAIN handlers :
        /\ handlers[p].kind = "toggle_model_restriction"
        /\ handlers[p].user \in Admins
        /\ Sent(handlers[p].log, "reply", "disabled", "ok") # {}
        /\ ~modelRestrictionEnabled

\* C19: register() publishes to the server first; it publishes at global
\* scope only after the publish to the server failed with code 50001; any
\* other failure of the publish to the server, and a failure of the global
\* publish, make register() reject, and the process of the main block
\* exit with code 1.
C19_PublishFallback ==
    LET l == registrar.log
        Code(e) == IF e.code # 0 THEN e.code ELSE e.raw
    IN  /\ l # << >> => l[1].scope = "guild"
        /\ \A i \in 1..Len(l) : l[i].scope = "global" =>
              /\ i = 2
              /\ l[1].res = "failed"
              /\ Code(l[1].err) = 50001
              /\ l[2].body = l[1].body
        /\ (l # << >> /\ l[1].res = "failed" /\ Code(l[1].err) # 50001) =>
              Len(l) = 1 /\ registrar.pc = "rejected"
        /\ (Len(l) = 2 /\ l[2].res = "failed") => registrar.pc = "rejected"
        /\ registrar.pc = "rejected" =>
              /\ l[Len(l)].res = "failed"
              /\ registrar.main => registrar.exit = Some(1)
        /\ registrar.pc = "resolved" => l[Len(l)].res = "ok"

\* The main block's register(true): the publish to the server failed with
\* missing access reported in rawError only, the global publish failed
\* too, and the process exited with code 1.
C19_Witness ==
    /\ registrar.main
    /\ registrar.pc = "rejected"
    /\ Len(registrar.log) = 2
    /\ registrar.log[1].err = Err(0, 50001, 403)
    /\ registrar.log[2].scope = "global"
    /\ registrar.log[2].res = "failed"
    /\ registrar.exit = Some(1)

\* C20: /summarize by a user who is not an administrator is rejected with a
\* reply: no acknowledgment, no fetch of the history, no call of the model.
C20_SummarizeAdminOnly ==
    \A p \in DOMAIN handlers :
        LET l == handlers[p].log
        IN  (handlers[p].kind = "summarize" /\ handlers[p].user \notin Admins
               /\ Checked(l, "guild", "pass") # {}) =>
              /\ Checked(l, "admin", "reject") # {}
              /\ l[Len(l)].op = "reply"
              /\ l[Len(l)].content = "adminOnly"
              /\ At(l, "deferReply") = {}
              /\ At(l, "fetch") = {}
              /\ At(l, "llm") = {}
              /\ handlers[p].pc \in {"awaitReply", "done"}

\* /summarize of bob, who is not an administrator, ended with the reply
\* that refuses it.
C20_Witness ==
    \E p \in DOMAIN handlers :
        /\ handlers[p].kind = "summarize"
        /\ handlers[p].user = "bob"
        /\ handlers[p].pc = "done"
        /\ Sent(handlers[p].log, "reply", "adminOnly", "ok") # {}

\* /summarize in slot p is in its loop, at a fetch.
Fetching(p) == handlers[p].kind = "summarize" /\ handlers[p].pc = "awaitFetch"

\* In the loop: the limit is within 10..1000, fewer messages than the limit
\* are collected, and the fetch asks for min(100, limit - collected).
LoopBounds ==
    \A p \in DOMAIN handlers :
        Fetching(p) =>
            LET h == handlers[p]
                asked == h.log[Len(h.log)].n
                left == h.limit - Len(h.collected)
            IN  /\ h.limit \in 10..1000
                /\ Len(h.collected) < h.limit
                /\ asked = (IF left < 100 THEN left ELSE 100)
                /\ h.lastId # Null =>
                      \A i \in 1..Len(h.collected) : h.collected[i].id >= h.lastId[1]

\* A fetch settles: the loop goes on with a cursor strictly before the one
\* of the fetch, the oldest message of the batch, or it stops, with the
\* limit reached or with an empty batch.
LoopStep ==
    \A p \in DOMAIN handlers :
        (Fetching(p) /\ handlers'[p] # handlers[p]) =>
            LET h == handlers[p]
                g == handlers'[p]
                batch == Batch(h.chan, h.log[Len(h.log)].n, h.lastId)
            IN  \/ /\ g.pc = "awaitFetch"
                   /\ batch # << >>
                   /\ g.lastId = Some(batch[Len(batch)].id)
                   /\ h.lastId # Null => g.lastId[1] < h.lastId[1]
                   /\ Len(g.collected) <= h.limit
                \/ /\ g.pc \in {"awaitLLM", "awaitNoMessages"}
                   /\ Len(g.plain) <= h.limit
                   /\ Len(g.plain) = h.limit \/ batch = << >>
                \/ g.pc = "awaitSorry"

\* C21: the loop of /summarize ends on every channel, as long as its
\* fetches settle; the limit is 200 without the option and within 10..1000
\* with it; each fetch asks for min(100, limit - collected) messages, each
\* fetch after the first for messages strictly before the oldest of the
\* batch before; never more than limit messages are collected; the loop
\* stops once the limit is reached or a batch is empty.
C21_LoopTerminates ==
    /\ EffectiveLimit(Null) = 200
    /\ \A n \in 0..1200 : EffectiveLimit(Some(n)) \in 10..1000
    /\ []LoopBounds
    /\ [][LoopStep]_vars
    /\ \A p \in {1} : Fetching(p) ~> ~Fetching(p)

\* /summarize with limit 10 is at its second fetch in a channel of 14
\* messages: 7 messages are collected, and it asks for 3 more, older than
\* message 5.
C21_Witness ==
    \E p \in DOMAIN handlers :
        LET h == handlers[p]
        IN  /\ Fetching(p)
            /\ h.limit = 10
            /\ Len(h.collected) = 7
            /\ h.lastId = Some(5)
            /\ h.log[Len(h.log)].n = 3

\* C22: /askllm checks the rate limit before the restriction, so a request
\* rejected by the restriction has recorded its time although the model is
\* not called for it, and another /askllm of the same user less than 20 s
\* later, whatever its model, is rejected by the rate limit.
C22_RestrictedStillCounts ==
    [][\A p \in DOMAIN handlers :
          /\ (Arrives(p) /\ Checked(handlers'[p].log, "restriction", "reject") # {}) =>
                /\ userLastRequest'[handlers'[p].user] = Some(now)
                /\ At(handlers'[p].log, "llm") = {}
          /\ \A q \in DOMAIN handlers \ {p} :
                (/\ Checked(handlers[p].log, "restriction", "reject") # {}
                 /\ Arrives(q)
                 /\ handlers'[q].kind = "askllm"
                 /\ handlers'[q].user = handlers[p].user) =>
                    LET t == userLastRequest[handlers[p].user]
                    IN  /\ t # Null
                        /\ At(handlers[p].log, "llm") = {}
                        /\ now < t[1] + CooldownMs =>
                              /\ Checked(handlers'[q].log, "checkRateLimit", "reject") # {}
                              /\ At(handlers'[q].log, "llm") = {}
                              /\ handlers'[q].pc = "awaitReply"]_vars

\* bob's /askllm for gpt-x was rejected by the restriction, and his
\* /askllm for asi1-mini that followed was rejected by the rate limit.
C22_Witness ==
    \E p, q \in DOMAIN handlers :
        /\ p # q
        /\ handlers[p].user = "bob"
        /\ handlers[q].user = "bob"
        /\ handlers[p].kind = "askllm"
        /\ handlers[q].kind = "askllm"
        /\ handlers[p].model = "gpt-x"
        /\ handlers[q].model = FreeModel
        /\ Checked(handlers[p].log, "restriction", "reject") # {}
        /\ Checked(handlers[q].log, "checkRateLimit", "reject") # {}

\* The handler that starts in slot p in this step is turned away before the
\* rate limit: a command outside a server, /summarize or the toggle by a
\* user who is not an administrator, any toggle, a message that is
\* ignored, a mention without a question.
TurnedAway(p) ==
    /\ Arrives(p)
    /\ LET h == handlers'[p]
       IN  \/ Checked(h.log, "guild", "reject") # {}
           \/ Checked(h.log, "admin", "reject") # {}
           \/ h.kind = "toggle_model_restriction"
           \/ \E why \in IgnoreReasons : Checked(h.log, why, "reject") # {}
           \/ Checked(h.log, "question", "reject") # {}

\* C23: only a call of checkRateLimit that allows changes the map, and by
\* the entry of its user; the events turned away before the rate limit
\* leave it as it is; no entry is removed.
C23_MapWrittenOnlyOnAccept ==
    [][/\ userLastRequest' # userLastRequest =>
             \E p \in DOMAIN handlers :
                 /\ Arrives(p)
                 /\ Checked(handlers'[p].log, "checkRateLimit", "pass") # {}
                 /\ userLastRequest' =
                       [userLastRequest EXCEPT ![handlers'[p].user] = Some(now)]
       /\ \A p \in DOMAIN handlers : TurnedAway(p) => userLastRequest' = userLastRequest
       /\ \A u \in Users : userLastRequest[u] # Null => userLastRequest'[u] # Null]_vars

\* After bob's request was allowed, the clock advanced and his /summarize
\* was refused, since he is not an administrator: his entry is still the
\* time of the allowed request.
C23_Witness ==
    \E p \in DOMAIN handlers :
        /\ handlers[p].kind = "summarize"
        /\ handlers[p].user = "bob"
        /\ Checked(handlers[p].log, "admin", "reject") # {}
        /\ userLastRequest["bob"] # Null
        /\ userLastRequest["bob"][1] < now

(***************************************************************************)
(* Properties of the model registry                                        *)
(***************************************************************************)
\* Call c starts in this step.
Starts(c) == calls[c].pc = "idle" /\ calls'[c].pc # "idle"

\* Call c returns in this step.
Returns(c) == calls[c].pc # "returned" /\ calls'[c].pc = "returned"

\* Call c returns in this step after its fetch.
ReturnsAfterFetch(c) == calls[c].pc = "fetching" /\ calls'[c].pc = "returned"

\* The file holds a valid, non-empty model list.
ValidFile(file) == file.kind = "json" /\ file.models # << >>

\* C4: every call of getAvailableModels, whatever forceRefresh and whatever
\* the caches, the fetch and the disk write do, returns a list of length >= 1
\* and leaves the in-memory cache holding a list of length >= 1.
C4_AlwaysNonEmpty ==
    [][\A c \in CallIds : Returns(c) =>
          /\ calls'[c].ret # Null
          /\ Len(calls'[c].ret[1]) >= 1
          /\ cachedModels' # Null
          /\ Len(cachedModels'[1]) >= 1]_vars

\* A call returned the hardcoded defaults after the disk cache was unusable
\* and the fetch failed.
C4_Witness ==
    \E c \in CallIds :
        /\ calls[c].pc = "returned"
        /\ ~calls[c].force
        /\ calls[c].io = <<"read", "fetch">>
        /\ calls[c].resp = Some(RespFailed)
        /\ calls[c].ret = Some(defaults)
        /\ cacheFile = FileMalformed

\* C5: with forceRefresh = false the sources are used in the order in-memory
\* cache, disk cache, remote API, hardcoded fallback, each only if every
\* earlier one missed; a valid disk cache is returned without a fetch.
C5_ResolutionOrder ==
    [][\A c \in CallIds :
          /\ (Starts(c) /\ ~calls'[c].force) =>
                IF cachedModels # Null
                THEN /\ calls'[c].pc = "returned"
                     /\ calls'[c].ret = cachedModels
                     /\ calls'[c].io = << >>
                ELSE IF ValidFile(cacheFile)
                THEN /\ calls'[c].pc = "returned"
                     /\ calls'[c].ret = Some(cacheFile.models)
                     /\ calls'[c].io = <<"read">>
                ELSE /\ calls'[c].pc = "fetching"
                     /\ calls'[c].io = <<"read", "fetch">>
          /\ (ReturnsAfterFetch(c) /\ ~calls[c].force) =>
                LET r == fetchModelsFromAPI(calls'[c].resp[1])
                IN  IF ~r.threw /\ r.models # << >>
                    THEN calls'[c].ret = Some(r.models)
                    ELSE calls'[c].ret = Some(defaults)]_vars

\* With an empty in-memory cache and the cache file {models: ["a","b"]}, a
\* call without forceRefresh returned ["a","b"] after one disk read and no
\* fetch.
C5_Witness ==
    \E c \in CallIds :
        /\ calls[c].pc = "returned"
        /\ ~calls[c].force
        /\ calls[c].io = <<"read">>
        /\ calls[c].ret = Some(<<"a", "b">>)
        /\ cacheFile = FileJson(<<"a", "b">>)

\* C6, as claimed: a call with forceRefresh = true reads no cache, fetches,
\* and when it returns both the in-memory cache and the cache file hold
\* exactly the list it returned.
C6_BothCachesHoldResult ==
    [][\A c \in CallIds : (ReturnsAfterFetch(c) /\ calls[c].force) =>
          /\ calls[c].io = <<"fetch">>
          /\ cachedModels' = calls'[c].ret
          /\ cacheFile' = FileJson(calls'[c].ret[1])]_vars

\* C6, amended: a call with forceRefresh = true reads no cache and fetches;
\* it returns the fetched list, or the defaults when the fetch fails or
\* yields nothing; the in-memory cache then holds the returned list; the
\* cache file holds it only when the list was fetched and the write
\* succeeded, and is otherwise left as it was.
C6_ForceRefresh ==
    [][\A c \in CallIds :
          /\ (Starts(c) /\ calls'[c].force) =>
                /\ calls'[c].pc = "fetching"
                /\ calls'[c].io = <<"fetch">>
                /\ cachedModels' = cachedModels
          /\ (ReturnsAfterFetch(c) /\ calls[c].force) =>
                LET r == fetchModelsFromAPI(calls'[c].resp[1])
                    fetched == ~r.threw /\ r.models # << >>
                    io == calls'[c].io
                IN  /\ calls'[c].ret = Some(IF fetched THEN r.models ELSE defaults)
                    /\ cachedModels' = calls'[c].ret
                    /\ io \in {<<"fetch">>, <<"fetch", "write">>, <<"fetch", "writefailed">>}
                    /\ (Len(io) = 2) = fetched
                    /\ cacheFile' = IF io = <<"fetch", "write">>
                                    THEN FileJson(calls'[c].ret[1])
                                    ELSE cacheFile]_vars

\* A forced call returned the fetched list and both caches hold it, although
\* the cache file held another list before.
C6_Witness ==
    \E c \in CallIds :
        /\ calls[c].pc = "returned"
        /\ calls[c].force
        /\ calls[c].io = <<"fetch", "write">>
        /\ calls[c].ret = Some(<<"n1", "s1", "i1">>)
        /\ cachedModels = calls[c].ret
        /\ cacheFile = FileJson(<<"n1", "s1", "i1">>)

\* C7: getModelChoices returns at most 25 entries, the first min(len, 25)
\* models in their order, each as a pair whose name and value are the model
\* id; a list of at most 25 models is returned whole.
C7_ChoicesTruncated ==
    choiceCall.out # Null =>
        LET in == choiceCall.in
            out == choiceCall.out[1]
        IN  /\ Len(out) <= 25
            /\ Len(out) = (IF Len(in) <= 25 THEN Len(in) ELSE 25)
            /\ \A i \in 1..Len(out) : out[i] = [name |-> in[i], value |-> in[i]]

\* getModelChoices was applied to a list of more than 25 models.
C7_Witness ==
    /\ choiceCall.out # Null
    /\ Len(choiceCall.in) > 25
    /\ Len(choiceCall.out[1]) = 25

====
